---- MODULE Spec2Model ----
(***************************************************************************)
(* Zero2Prod: the subscription / confirmation / newsletter handlers as a   *)
(* state machine.  Every request is a task that runs from one await point  *)
(* to the next; tasks interleave at their await points.  The store is the  *)
(* two tables subscriptions and subscription_tokens (and the read-only     *)
(* users table); a transaction buffers its rows until commit.              *)
(*                                                                         *)
(* Strings are sequences of lexemes (<<"jon", "@", "email.com">>), so that *)
(* formatting a link and parsing it back are computed, not assumed.        *)
(***************************************************************************)
EXTENDS Integers, Sequences, FiniteSets, Bags, TLC

\* ------------------------------------------------------------------ bounds
\* Requests issued in one behaviour, and how many may be in flight at once.
MaxRequests == 3
MaxInFlight == 2

\* --------------------------------------------------------- program constants
TokenLen == 25
StatusOk == 200
StatusSeeOther == 303
StatusBadRequest == 400
StatusUnauthorized == 401
StatusInternalServerError == 500

Pending == "pending confirmation"
Confirmed == "confirmed"

\* The table has no row / the Option is None.
None == <<>>
NoId == 0

\* ------------------------------------------------------------------ inputs
Requests == 1..MaxRequests

EmailJon == <<"jon", "@", "email.com">>
EmailAnn == <<"ann", "@", "email.com">>
NotAnEmail == <<"not-an-email">>
EmptyString == <<>>
NameJon == <<"Jon", " ", "Doe">>

\* The forms a client posts to /subscriptions.
Forms ==
    { [name |-> NameJon, email |-> EmailJon],
      [name |-> NameJon, email |-> EmailAnn],
      [name |-> EmptyString, email |-> EmailJon],
      [name |-> NameJon, email |-> EmptyString],
      [name |-> NameJon, email |-> NotAnEmail] }

\* rand's Alphanumeric distribution, cut to the characters the model draws.
Alphanumeric == {"a", "B", "7"}

\* The strings thread_rng can yield in the model: TokenLen draws that all
\* came out the same character.
RngTokens == { [i \in 1..TokenLen |-> c] : c \in {"a", "B"} }

BaseUrl == <<"http://127.0.0.1">>

\* ------------------------------------------------------------------- state
VARIABLES
    subscriptions,        \* committed rows of table subscriptions
    subscription_tokens,  \* committed rows of table subscription_tokens
    users,                \* rows of table users (provisioned out of band)
    email_unique,         \* whether the schema has UNIQUE on subscriptions.email
    req,                  \* the requests in flight: handler position and locals
    started,              \* number of requests issued so far
    outbox,               \* the emails the gateway accepted (a bag)
    response              \* the response the last step gave (with the handler's
                          \* locals at its return), NoResponse if it gave none

vars == <<subscriptions, subscription_tokens, users, email_unique, req, started,
          outbox, response>>

store == <<subscriptions, subscription_tokens, users, email_unique>>

\* ----------------------------------------------------------------- domain
\* SubscriberName::parse: non-empty, none of the forbidden characters.
ForbiddenNameChars == {"/", "(", ")", "\"", "<", ">", "\\", "{", "}"}

SubscriberName_parse(s) ==
    /\ Len(s) > 0
    /\ \A i \in 1..Len(s) : s[i] \notin ForbiddenNameChars

\* SubscriberEmail::parse: local part, "@", domain.
SubscriberEmail_parse(s) ==
    /\ Len(s) = 3
    /\ s[2] = "@"
    /\ s[1] # "@" /\ s[3] # "@"

TryFrom_BadName(form) == SubscriberEmail_parse(form.email)

\* impl TryFrom<FormData> for Subscriber: both fields must parse.
TryFrom(form) ==
    SubscriberName_parse(form.name) /\ SubscriberEmail_parse(form.email)

\* ------------------------------------------------------------ store schema
EmailUniqueViolation_Off(email) == FALSE

\* UNIQUE (email) on subscriptions: a committed row already holds the email.
EmailUniqueViolation(email) ==
    email_unique /\ \E s \in subscriptions : s.email = email

\* PRIMARY KEY (subscription_token): a committed row already holds the token.
TokenKeyViolation(token) ==
    \E t \in subscription_tokens : t.subscription_token = token

\* An insert waits while another open transaction holds an uncommitted row
\* with the same unique key; it goes on once that transaction has ended.
EmailInsertWaits(r, email) ==
    email_unique /\ \E q \in Requests \ {r} : \E s \in req[q].tx.subs : s.email = email

TokenInsertWaits(r, token) ==
    \E q \in Requests \ {r} : \E t \in req[q].tx.toks : t.subscription_token = token

\* ------------------------------------------------------- database_helper.rs
\* Uuid::new_v4(): a value no other call yields; request r's own number.
Uuid_new_v4(r) == r

insert_subscriber_AsConfirmed(id, form) ==
    [id |-> id, email |-> form.email, name |-> form.name, status |-> Confirmed]

\* INSERT INTO subscriptions (...) VALUES ($1, $2, $3, $4, 'pending confirmation')
insert_subscriber(id, form) ==
    [id |-> id, email |-> form.email, name |-> form.name, status |-> Pending]

store_token_WrongSubscriber(subscriber_id, token) ==
    [subscription_token |-> token, subscriber_id |-> subscriber_id + 1]

\* INSERT INTO subscription_tokens (subscription_token, subscriber_id) VALUES ($1, $2)
store_token(subscriber_id, token) ==
    [subscription_token |-> token, subscriber_id |-> subscriber_id]

\* ... WHERE email=$1 AND status='pending confirmation': a confirmed
\* subscriber is not found.
get_subscriber_id_from_email_PendingOnly(email) ==
    LET ids == { s.id : s \in { x \in subscriptions :
                                  x.email = email /\ x.status = Pending } }
    IN  IF ids = {} THEN {NoId} ELSE ids

\* ... WHERE email=$1 AND status='confirmed': a pending subscriber is not found.
get_subscriber_id_from_email_ConfirmedOnly(email) ==
    LET ids == { s.id : s \in { x \in subscriptions :
                                  x.email = email /\ x.status = Confirmed } }
    IN  IF ids = {} THEN {NoId} ELSE ids

\* ... WHERE email=$1 with the wrong value bound: no row ever matches.
get_subscriber_id_from_email_NeverFinds(email) == {NoId}

\* SELECT id FROM subscriptions WHERE email=$1, fetch_optional: the results
\* the query can give (any one matching row, or NoId when there is none).
get_subscriber_id_from_email(email) ==
    LET ids == { s.id : s \in { x \in subscriptions : x.email = email } }
    IN  IF ids = {} THEN {NoId} ELSE ids

get_subscription_token_from_id_Fresh(subscriber_id) == RngTokens

\* SELECT subscription_token FROM subscription_tokens WHERE subscriber_id=$1
get_subscription_token_from_id(subscriber_id) ==
    LET ts == { t.subscription_token :
                  t \in { x \in subscription_tokens : x.subscriber_id = subscriber_id } }
    IN  IF ts = {} THEN {None} ELSE ts

\* ... WHERE the subscriber is still pending.
get_subscriber_id_from_token_PendingOnly(token) ==
    LET ids == { t.subscriber_id :
                   t \in { x \in subscription_tokens :
                             /\ x.subscription_token = token
                             /\ \E s \in subscriptions :
                                  s.id = x.subscriber_id /\ s.status = Pending } }
    IN  IF ids = {} THEN {NoId} ELSE ids

\* ... WHERE the tokens agree on their first character.
get_subscriber_id_from_token_FirstChar(token) ==
    LET ids == { t.subscriber_id :
                   t \in { x \in subscription_tokens :
                             /\ Len(token) > 0
                             /\ x.subscription_token[1] = token[1] } }
    IN  IF ids = {} THEN {NoId} ELSE ids

get_subscriber_id_from_token_AnyRow(token) ==
    IF subscriptions = {} THEN {NoId} ELSE { s.id : s \in subscriptions }

\* SELECT subscriber_id FROM subscription_tokens WHERE subscription_token=$1
get_subscriber_id_from_token(token) ==
    LET ids == { t.subscriber_id :
                   t \in { x \in subscription_tokens : x.subscription_token = token } }
    IN  IF ids = {} THEN {NoId} ELSE ids

\* UPDATE subscriptions SET status='confirmed', without the WHERE clause.
confirm_subscriber_AllRows(subscriber_id) ==
    { [s EXCEPT !.status = Confirmed] : s \in subscriptions }

confirm_subscriber_Toggle(subscriber_id) ==
    { IF s.id = subscriber_id
        THEN [s EXCEPT !.status = IF s.status = Confirmed THEN Pending ELSE Confirmed]
        ELSE s : s \in subscriptions }

\* UPDATE subscriptions SET status='confirmed' WHERE id=$1
confirm_subscriber(subscriber_id) ==
    { IF s.id = subscriber_id THEN [s EXCEPT !.status = Confirmed] ELSE s :
        s \in subscriptions }

\* ---------------------------------------------------------- subscriptions.rs
\* generate_subscription_token: what the 25 draws can come out as.
generate_subscription_token == RngTokens

ConfirmPath == <<"/subscriptions/confirm">>
TokenParam == "subscription_token"

confirmation_link_NoToken(base_url, token) ==
    base_url \o ConfirmPath \o <<"?", TokenParam, "=">>

\* base_url.join("/subscriptions/confirm?subscription_token={token}")
confirmation_link(base_url, token) ==
    base_url \o ConfirmPath \o <<"?", TokenParam, "=">> \o token

PlainHead == "Welcome to our newsletter!\nVisit "
PlainTail == " to confirm subscription"
HtmlHead == "Welcome to our newsletter!<br />Click <a href=\""
HtmlTail == "\"> here </a> to confirm your subscription."

\* The plain text built around the base url, not around the link.
plain_body_BaseUrl(link) == <<PlainHead>> \o <<Head(link)>> \o <<PlainTail>>

\* format!("Welcome ..Visit {} to confirm subscription", confirmation_link)
plain_body(link) == <<PlainHead>> \o link \o <<PlainTail>>

\* format!("Welcome ..Click <a href=\"{}\"> here </a> ..", confirmation_link)
html_body(link) == <<HtmlHead>> \o link \o <<HtmlTail>>

\* ----------------------------------------------------------- email_client.rs
\* EmailClient::send_email: the SendEMailRequest posted to the gateway.
send_email(recipient, subject, text_content, html_content) ==
    [to |-> recipient, subject |-> subject,
     html_body |-> html_content, text_body |-> text_content]

\* send_confirmation_email
send_confirmation_email(form, base_url, token) ==
    LET link == confirmation_link(base_url, token)
    IN  send_email(form.email, "Welcome", plain_body(link), html_body(link))

\* The gateway answers 2xx and keeps the email, or the call ends in an error
\* (transport error, timeout, non-2xx) and the email is not delivered.
Gateway(email, ok) == IF ok THEN outbox (+) SetToBag({email}) ELSE outbox

\* ------------------------------------------------------- tests/api/helpers.rs
\* linkify's LinkFinder over a body: the run of URL lexemes in it.
IsUrlLexeme(x) == x \notin {PlainHead, PlainTail, HtmlHead, HtmlTail}

\* TestApp::get_confirmation_links: the one link of a body.
get_link(body) == SelectSeq(body, IsUrlLexeme)

\* Url::query: what follows the first "?".
url_query(link) ==
    LET marks == { i \in 1..Len(link) : link[i] = "?" }
    IN  IF marks = {} THEN <<>>
        ELSE SubSeq(link, (CHOOSE i \in marks : \A j \in marks : i <= j) + 1, Len(link))

\* ------------------------------------------------- subscriptions_confirm.rs
\* Parameters with an optional subscription_token.
Parameters_present_Lenient(query) == TRUE

\* web::Query<Parameters>: the query must carry subscription_token=<value>.
Parameters_present(query) ==
    Len(query) >= 2 /\ query[1] = TokenParam /\ query[2] = "="

Parameters_subscription_token(query) == SubSeq(query, 3, Len(query))

\* The queries a client sends to /subscriptions/confirm without an email:
\* none, a guessed token, a token of the wrong length, a token of the right
\* length with a character outside the alphabet.
ShortToken == <<"a", "B">>
DashToken == [i \in 1..TokenLen |-> "-"]
GuessedQueries ==
    {<<>>} \cup { <<TokenParam, "=">> \o t : t \in RngTokens \cup {ShortToken, DashToken} }

\* ---------------------------------------------------------------- requests
NoTx == [open |-> FALSE, subs |-> {}, toks |-> {}]

NoCredentials == [username |-> <<>>, password |-> <<>>]

IdleReq ==
    [id |-> 0, kind |-> "none", pc |-> "idle",
     form |-> [name |-> <<>>, email |-> <<>>],  \* subscribe: form_data
     token |-> None,        \* subscribe: subscription_token; confirm: the parameter
     sid |-> NoId,          \* subscriber_id
     tx |-> NoTx,           \* subscribe: the open transaction's uncommitted rows
     path |-> "none",       \* subscribe: "existing" or "new"
     recipient |-> <<>>,    \* confirm: whose email the client clicked the link of
     query |-> <<>>,        \* confirm: the query string of the request
     status_before |-> "none",  \* confirm: the status the UPDATE found in the row
     header |-> <<>>,       \* publish: the Authorization header of the request
     credentials |-> NoCredentials,  \* publish: what basic_authentication gave
     user_id |-> "",        \* publish, login: the user id validate_credentials gave
     error |-> "none",      \* login: the AuthError validate_credentials gave
     has_body |-> FALSE,    \* publish: the deserialized body is NewsletterIssue
     body_fields |-> {},    \* publish: the top-level fields of the JSON body
     list |-> <<>>,         \* publish: confirmed subscribers still to visit
     loaded |-> {},         \* publish: the stored emails get_confirmed_subscribers gave
     sent |-> EmptyBag,     \* publish: the recipients whose send returned Ok
     www_authenticate |-> "",  \* publish: the response's WWW-Authenticate header
     resp |-> 0,            \* status of the response, 0 while running
     failed |-> "none",     \* the call that returned Err, if any
     sends |-> 0,           \* send_email calls made
     db |-> 0]              \* store calls made

InFlight == { r \in Requests : req[r].pc \notin {"idle", "done"} }

\* Requests are issued in order of their numbers.
CanStart(r) ==
    /\ r = started + 1
    /\ r <= MaxRequests
    /\ Cardinality(InFlight) < MaxInFlight

\* The handler returns: the response goes out and a transaction still open
\* is dropped, which rolls it back.
Respond(rec, status) ==
    [rec EXCEPT !.pc = "done", !.resp = status, !.tx = NoTx]

\* `?` on an Err of call `what`.
Fail(rec, what, status) ==
    [Respond(rec, status) EXCEPT !.failed = what]

DbCall(rec) == [rec EXCEPT !.db = @ + 1]

At(r, kind, pc) == req[r].kind = kind /\ req[r].pc = pc

\* A finished request keeps nothing but that it is done.
DoneReq == [IdleReq EXCEPT !.pc = "done"]

NoResponse == IdleReq

\* Request r goes on to `next`; if that is its return, the response goes out.
Step(r, next) ==
    IF next.pc = "done"
      THEN /\ req' = [req EXCEPT ![r] = DoneReq]
           /\ response' = [next EXCEPT !.id = r]
      ELSE /\ req' = [req EXCEPT ![r] = next]
           /\ response' = NoResponse

\* ------------------------------------------------- subscriptions.rs: subscribe
SubscribeError_status_code_AllOk(error) == StatusOk

\* impl ResponseError for SubscribeError
SubscribeError_status_code(error) ==
    IF error = "ValidationError" THEN StatusBadRequest ELSE StatusInternalServerError

\* `.context(..)?`: the Err becomes SubscribeError::UnexpectedError.
SubscribeFail(rec, what) ==
    Fail(rec, what, SubscribeError_status_code("UnexpectedError"))

\* POST /subscriptions arrives: form_data.0.try_into(), then
\* get_subscriber_id_from_email(..).await.context(..)?
Subscribe(r, form) ==
    /\ CanStart(r)
    /\ started' = r
    /\ \E ok \in BOOLEAN, id \in get_subscriber_id_from_email(form.email) :
         LET arrived == [IdleReq EXCEPT !.kind = "subscribe", !.form = form]
             rec == DbCall(arrived)
         IN  Step(r,
               IF ~TryFrom(form) THEN Fail(arrived, "try_into", StatusBadRequest)
               ELSE IF ~ok THEN SubscribeFail(rec, "get_subscriber_id_from_email")
               ELSE IF id # NoId
                 THEN [rec EXCEPT !.pc = "get_token", !.sid = id, !.path = "existing"]
                 ELSE [rec EXCEPT !.pc = "begin", !.path = "new"])
    /\ UNCHANGED <<store, outbox>>

\* A token made up for the subscriber that has none, and emailed.
SubscribeNoToken_Generate(rec) ==
    [rec EXCEPT !.pc = "send", !.token = CHOOSE t \in generate_subscription_token : TRUE]

\* None => return Ok(HttpResponse::InternalServerError().finish())
SubscribeNoToken(rec) == Respond(rec, StatusInternalServerError)

\* get_subscription_token_from_id(..).await.context(..)?; None => 500.
SubscribeGetToken(r) ==
    /\ At(r, "subscribe", "get_token")
    /\ \E ok \in BOOLEAN, token \in get_subscription_token_from_id(req[r].sid) :
         LET rec == DbCall(req[r])
         IN  Step(r,
                       IF ~ok THEN SubscribeFail(rec, "get_subscription_token_from_id")
                       ELSE IF token = None THEN SubscribeNoToken(rec)
                         ELSE [rec EXCEPT !.pc = "send", !.token = token])
    /\ UNCHANGED <<store, started, outbox>>

\* db_connection_pool.begin().await.context(..)?
SubscribeBegin(r) ==
    /\ At(r, "subscribe", "begin")
    /\ \E ok \in BOOLEAN :
         LET rec == DbCall(req[r])
         IN  Step(r,
                       IF ~ok THEN SubscribeFail(rec, "begin")
                       ELSE [rec EXCEPT !.pc = "insert", !.tx.open = TRUE])
    /\ UNCHANGED <<store, started, outbox>>

insert_subscriber_executor_Pool == "pool"

\* insert_subscriber's `.execute(transaction)`: the statement runs on the
\* open transaction, not on the pool (where it would commit on its own).
insert_subscriber_executor == "transaction"

\* insert_subscriber(&subscriber, &mut transaction).await.context(..)?
SubscribeInsert(r) ==
    /\ At(r, "subscribe", "insert")
    /\ ~EmailInsertWaits(r, req[r].form.email)
    /\ \E ok \in BOOLEAN :
         LET rec == DbCall(req[r])
             subscriber_id == Uuid_new_v4(r)
             row == insert_subscriber(subscriber_id, rec.form)
             inserted == [rec EXCEPT !.pc = "store_token", !.sid = subscriber_id]
         IN  IF ~ok \/ EmailUniqueViolation(rec.form.email)
               THEN /\ Step(r, SubscribeFail(rec, "insert_subscriber"))
                    /\ UNCHANGED subscriptions
             ELSE IF insert_subscriber_executor = "transaction"
               THEN /\ Step(r, [inserted EXCEPT !.tx.subs = {row}])
                    /\ UNCHANGED subscriptions
               ELSE /\ Step(r, inserted)
                    /\ subscriptions' = subscriptions \cup {row}
    /\ UNCHANGED <<subscription_tokens, users, email_unique, started, outbox>>

\* send_confirmation_email called while the transaction is still open.
SubscribeAfterStoreToken_Send == "send"

\* What follows store_token in subscribe: transaction.commit().await, and
\* only then send_confirmation_email.
SubscribeAfterStoreToken == "commit"

\* generate_subscription_token(); store_token(..).await.context(..)?
SubscribeStoreToken(r) ==
    /\ At(r, "subscribe", "store_token")
    /\ \E ok \in BOOLEAN, subscription_token \in generate_subscription_token :
         /\ ~TokenInsertWaits(r, subscription_token)
         /\ LET rec == [DbCall(req[r]) EXCEPT !.token = subscription_token]
            IN  Step(r,
                          IF ~ok \/ TokenKeyViolation(subscription_token)
                            THEN SubscribeFail(rec, "store_token")
                            ELSE [rec EXCEPT !.pc = SubscribeAfterStoreToken,
                                             !.tx.toks = {store_token(rec.sid, subscription_token)}])
    /\ UNCHANGED <<store, started, outbox>>

\* transaction.commit().await.context(..)?: the rows of the transaction
\* become visible together, or the transaction is rolled back.
SubscribeCommit(r) ==
    /\ At(r, "subscribe", "commit")
    /\ \E ok \in BOOLEAN :
         LET rec == DbCall(req[r])
         IN  IF ok
               THEN /\ subscriptions' = subscriptions \cup rec.tx.subs
                    /\ subscription_tokens' = subscription_tokens \cup rec.tx.toks
                    /\ Step(r, [rec EXCEPT !.pc = "send", !.tx = NoTx])
               ELSE /\ Step(r, SubscribeFail(rec, "commit"))
                    /\ UNCHANGED <<subscriptions, subscription_tokens>>
    /\ UNCHANGED <<users, email_unique, started, outbox>>

\* send_confirmation_email(..).await.context(..)?; Ok(HttpResponse::Ok())
\* (both call sites: the existing subscriber's token, or the new one).
SubscribeSendEmail(r) ==
    /\ At(r, "subscribe", "send")
    /\ \E ok \in BOOLEAN :
         LET rec == [req[r] EXCEPT !.sends = @ + 1]
         IN  /\ outbox' = Gateway(send_confirmation_email(rec.form, BaseUrl, rec.token), ok)
             /\ Step(r,
                          IF ok THEN Respond(rec, StatusOk)
                          ELSE SubscribeFail(rec, "send_confirmation_email"))
    /\ UNCHANGED <<store, started>>

\* --------------------------------------------- subscriptions_confirm.rs: confirm
\* The lookup's Err treated like None: 401.
ConfirmLookupFailed_Unauthorized(rec) ==
    Fail(rec, "get_subscriber_id_from_token", StatusUnauthorized)

\* Err(_) => return HttpResponse::InternalServerError().finish()
ConfirmLookupFailed(rec) ==
    Fail(rec, "get_subscriber_id_from_token", StatusInternalServerError)

\* GET /subscriptions/confirm?<query> arrives: web::Query<Parameters> rejects
\* a query without subscription_token before the handler runs; then
\* get_subscriber_id_from_token(..).await: Err => 500, None => 401.
Confirm(r, query, recipient) ==
    /\ CanStart(r)
    /\ started' = r
    /\ \E ok \in BOOLEAN,
          id \in get_subscriber_id_from_token(Parameters_subscription_token(query)) :
         LET arrived == [IdleReq EXCEPT !.kind = "confirm", !.recipient = recipient,
                                        !.query = query]
             rec == DbCall([arrived EXCEPT !.token = Parameters_subscription_token(query)])
         IN  Step(r,
               IF ~Parameters_present(query)
                 THEN Fail(arrived, "Query<Parameters>", StatusBadRequest)
               ELSE IF ~ok THEN ConfirmLookupFailed(rec)
               ELSE IF id = NoId THEN Respond(rec, StatusUnauthorized)
               ELSE [rec EXCEPT !.pc = "update", !.sid = id])
    /\ UNCHANGED <<store, outbox>>

\* TestApp::call_confirmation_link: the client follows the html link of a
\* confirmation email it received.
ConfirmClick(r, email) ==
    /\ email.subject = "Welcome"
    /\ Confirm(r, url_query(get_link(email.html_body)), email.to)

\* A client that has no email asks with a query of its own.
ConfirmGuess(r, query) == Confirm(r, query, <<>>)

\* confirm_subscriber(..).await.is_err() => 500; else 200.
ConfirmUpdate(r) ==
    /\ At(r, "confirm", "update")
    /\ \E ok \in BOOLEAN :
         LET found == { s.status : s \in { x \in subscriptions : x.id = req[r].sid } }
             rec == [DbCall(req[r]) EXCEPT
                       !.status_before = IF found = {} THEN "none"
                                         ELSE CHOOSE status \in found : TRUE]
         IN  IF ok
               THEN /\ subscriptions' = confirm_subscriber(rec.sid)
                    /\ Step(r, Respond(rec, StatusOk))
               ELSE /\ UNCHANGED subscriptions
                    /\ Step(r,
                                 Fail(rec, "confirm_subscriber", StatusInternalServerError))
    /\ UNCHANGED <<subscription_tokens, users, email_unique, started, outbox>>

\* ------------------------------------------------- newsletters.rs: inputs
\* The one well-formed issue; a body lacking a field does not deserialize.
NewsletterIssue ==
    [title |-> "Newsletter Title",
     content |-> [text |-> "Newsletter body as plain text",
                  html |-> "<p> Newsletter body as HTML </p>"]]

Bodies ==
    { NewsletterIssue,
      [content |-> NewsletterIssue.content],
      [title |-> NewsletterIssue.title] }

\* Every field defaulted when absent (#[serde(default)]): any body deserializes.
BodyData_deserialize_Lenient(json) == TRUE

\* serde::Deserialize for BodyData / Content
BodyData_deserialize(json) ==
    /\ {"title", "content"} \subseteq DOMAIN json
    /\ {"text", "html"} \subseteq DOMAIN json.content

\* base64 of a text, and STANDARD.decode: only an encoding decodes.
base64_encode(text) == <<"b64(">> \o text \o <<")">>
base64_is_valid(x) == Len(x) >= 2 /\ x[1] = "b64(" /\ x[Len(x)] = ")"
base64_decode(x) == SubSeq(x, 2, Len(x) - 1)

\* reqwest's basic_auth(username, password)
BasicHeader(username, password) ==
    <<"Basic ">> \o base64_encode(username \o <<":">> \o password)

Admin == <<"admin">>
Legacy == <<"legacy">>
Ghost == <<"ghost">>
Secret == <<"secret">>
Wrong == <<"wrong">>

\* What a request can carry as Authorization (<<>>: no header).
AuthHeaders ==
    { <<>>,
      <<"Bearer ", "x">>,
      <<"Basic ", "%%%">>,
      <<"Basic ">> \o base64_encode(Admin),
      BasicHeader(Admin, Secret),
      BasicHeader(Admin, Wrong),
      BasicHeader(Ghost, Secret),
      BasicHeader(Legacy, Secret) }

\* A PHC string as argon2 writes it, and the rows provisioned out of band:
\* one user with a proper hash, one whose stored password is not a PHC string.
Phc(password) == <<"$argon2id$v=19$">> \o password

ProvisionedUsers ==
    { [user_id |-> "user-admin", username |-> Admin, password |-> Phc(Secret)],
      [user_id |-> "user-legacy", username |-> Legacy, password |-> Secret] }

\* ------------------------------------------------- newsletters.rs: helpers
FirstColon(text) ==
    LET marks == { i \in 1..Len(text) : text[i] = ":" }
    IN  IF marks = {} THEN 0 ELSE CHOOSE i \in marks : \A j \in marks : i <= j

\* basic_authentication(headers): the credentials, or ok = FALSE for any of
\* its errors (no header, not "Basic ", not base64, no ':').
basic_authentication(header) ==
    IF header = <<>> \/ header[1] # "Basic " \/ ~base64_is_valid(Tail(header))
      THEN [ok |-> FALSE, credentials |-> NoCredentials]
      ELSE LET decoded == base64_decode(Tail(header))
               colon == FirstColon(decoded)
           IN  IF colon = 0
                 THEN [ok |-> FALSE, credentials |-> NoCredentials]
                 ELSE [ok |-> TRUE,
                       credentials |->
                         [username |-> SubSeq(decoded, 1, colon - 1),
                          password |-> SubSeq(decoded, colon + 1, Len(decoded))]]

\* AuthError answered 401 without the challenge header.
PublishError_error_response_NoChallenge(error) ==
    IF error = "AuthError"
      THEN [status |-> StatusUnauthorized, www_authenticate |-> ""]
      ELSE [status |-> StatusInternalServerError, www_authenticate |-> ""]

\* impl ResponseError for PublishError: status and WWW-Authenticate header.
PublishError_error_response(error) ==
    IF error = "AuthError"
      THEN [status |-> StatusUnauthorized, www_authenticate |-> "Basic realm=\"publish\""]
      ELSE [status |-> StatusInternalServerError, www_authenticate |-> ""]

PublishFail(rec, what, error) ==
    LET error_response == PublishError_error_response(error)
    IN  [Fail(rec, what, error_response.status) EXCEPT
           !.www_authenticate = error_response.www_authenticate]

NoUser == [user_id |-> "", username |-> <<>>, password |-> <<>>]

\* SELECT user_id, password FROM users WHERE username = $1, fetch_optional
get_stored_credentials(username) ==
    LET rows == { u \in users : u.username = username }
    IN  IF rows = {} THEN {NoUser} ELSE rows

\* PasswordHash::new: the stored string is in PHC format.
PasswordHash_new_ok(stored) == Len(stored) >= 1 /\ stored[1] = "$argon2id$v=19$"

\* Argon2::verify_password: the candidate hashes to the stored hash.
verify_password(candidate, stored) == Tail(stored) = candidate

\* A verification failure wrapped as UnexpectedError.
validate_password_hash_WrongIsUnexpected(expected_password, password_candidate) ==
    IF ~PasswordHash_new_ok(expected_password) THEN "AuthError"
    ELSE IF ~verify_password(password_candidate, expected_password) THEN "UnexpectedError"
    ELSE "ok"

\* validate_password_hash of routes/newsletters.rs: "ok", or the PublishError.
validate_password_hash(expected_password, password_candidate) ==
    IF ~PasswordHash_new_ok(expected_password) THEN "AuthError"
    ELSE IF ~verify_password(password_candidate, expected_password) THEN "AuthError"
    ELSE "ok"

\* The orders in which fetch_all can return the rows of a set.
Orders(S) ==
    { f \in [1..Cardinality(S) -> S] : \A i, j \in 1..Cardinality(S) : f[i] = f[j] => i = j }

\* SELECT email FROM subscriptions, without the WHERE clause.
get_confirmed_subscribers_AllSubscribers ==
    { [i \in DOMAIN rows |->
         [ok |-> SubscriberEmail_parse(rows[i].email), email |-> rows[i].email]] :
      rows \in Orders(subscriptions) }

\* The rows taken as they are stored, without SubscriberEmail::parse.
get_confirmed_subscribers_Unparsed ==
    { [i \in DOMAIN rows |-> [ok |-> TRUE, email |-> rows[i].email]] :
      rows \in Orders({ s \in subscriptions : s.status = Confirmed }) }

\* SELECT email FROM subscriptions WHERE status = 'pending confirmation'.
get_confirmed_subscribers_Pending ==
    { [i \in DOMAIN rows |->
         [ok |-> SubscriberEmail_parse(rows[i].email), email |-> rows[i].email]] :
      rows \in Orders({ s \in subscriptions : s.status = Pending }) }

\* get_confirmed_subscribers: the confirmed rows, each with its email parsed.
get_confirmed_subscribers ==
    { [i \in DOMAIN rows |->
         [ok |-> SubscriberEmail_parse(rows[i].email), email |-> rows[i].email]] :
      rows \in Orders({ s \in subscriptions : s.status = Confirmed }) }

\* ------------------------------------------- newsletters.rs: publish_newsletter
\* validate_credentials of routes/newsletters.rs, from request state `rec`:
\* get_stored_credentials(..).await, then validate_password_hash on the
\* blocking pool (joined: the task was not lost).
validate_credentials(rec, ok, row, joined) ==
    LET got == DbCall(rec)
        verdict == validate_password_hash(row.password, rec.credentials.password)
    IN  IF ~ok THEN PublishFail(got, "get_stored_credentials", "UnexpectedError")
        ELSE IF row = NoUser THEN PublishFail(got, "unknown_username", "AuthError")
        ELSE IF ~joined THEN PublishFail(got, "spawn_blocking", "UnexpectedError")
        ELSE IF verdict # "ok" THEN PublishFail(got, "validate_password_hash", verdict)
        ELSE [got EXCEPT !.pc = "load", !.user_id = row.user_id]

\* POST /newsletters arrives: web::Json<BodyData> rejects a malformed body
\* before the handler runs; then basic_authentication(request.headers()) and
\* validate_credentials(..).await, which read nothing a request can change.
PublishNewsletter(r, json, header) ==
    /\ CanStart(r)
    /\ started' = r
    /\ LET arrived == [IdleReq EXCEPT !.kind = "publish", !.header = header,
                                       !.body_fields = DOMAIN json]
           auth == basic_authentication(header)
           rec == [arrived EXCEPT !.has_body = TRUE, !.credentials = auth.credentials]
       IN  IF ~BodyData_deserialize(json)
             THEN Step(r, Fail(arrived, "Json<BodyData>", StatusBadRequest))
           ELSE IF ~auth.ok
             THEN Step(r, PublishFail([arrived EXCEPT !.has_body = TRUE],
                                      "basic_authentication", "AuthError"))
           ELSE \E ok \in BOOLEAN, joined \in BOOLEAN,
                   row \in get_stored_credentials(auth.credentials.username) :
                  Step(r, validate_credentials(rec, ok, row, joined))
    /\ UNCHANGED <<store, outbox>>

\* DELETE FROM subscriptions WHERE status = 'confirmed' RETURNING email: the
\* rows taken out of the table as they are read.
PublishLoadSubscribers_Consume(r) ==
    /\ At(r, "publish", "load")
    /\ \E confirmed_subscribers \in get_confirmed_subscribers :
         Step(r, [DbCall(req[r]) EXCEPT
                    !.pc = "loop", !.list = confirmed_subscribers,
                    !.loaded = { confirmed_subscribers[i].email :
                                   i \in DOMAIN confirmed_subscribers }])
    /\ subscriptions' = { s \in subscriptions : s.status # Confirmed }
    /\ UNCHANGED <<subscription_tokens, users, email_unique, started, outbox>>

\* get_confirmed_subscribers(..).await.context(..)?
PublishLoadSubscribers(r) ==
    /\ At(r, "publish", "load")
    /\ \E ok \in BOOLEAN, confirmed_subscribers \in get_confirmed_subscribers :
         LET rec == DbCall(req[r])
         IN  Step(r,
                       IF ~ok THEN PublishFail(rec, "get_confirmed_subscribers",
                                               "UnexpectedError")
                       ELSE [rec EXCEPT !.pc = "loop", !.list = confirmed_subscribers,
                                        !.loaded = { confirmed_subscribers[i].email :
                                                       i \in DOMAIN confirmed_subscribers }])
    /\ UNCHANGED <<store, started, outbox>>

\* send_email's Err swallowed: the loop goes on to the next subscriber.
PublishSendFailed_Continue(rec) == [rec EXCEPT !.list = Tail(@)]

\* send_email's Err answered by trying the same subscriber again.
PublishSendFailed_Retry(rec) == rec

\* `.with_context(..)?` on send_email's Err: the handler returns
\* PublishError::UnexpectedError from inside the loop.
PublishSendFailed(rec) == PublishFail(rec, "send_email", "UnexpectedError")

\* The confirmed rows queried again at every turn of the loop, and the
\* next subscriber not yet sent to taken from the fresh answer.
PublishSendNext_Requery(r) ==
    /\ At(r, "publish", "loop")
    /\ \E fresh \in get_confirmed_subscribers :
         LET rec == req[r]
             todo == SelectSeq(fresh, LAMBDA x : x.email \notin BagToSet(rec.sent))
         IN  IF todo = <<>>
               THEN /\ Step(r, Respond(rec, StatusOk))
                    /\ UNCHANGED outbox
               ELSE /\ outbox' = Gateway(
                         send_email(Head(todo).email, NewsletterIssue.title,
                                    <<NewsletterIssue.content.text>>,
                                    <<NewsletterIssue.content.html>>), TRUE)
                    /\ Step(r, [rec EXCEPT
                                  !.sends = @ + 1,
                                  !.list = Tail(todo),
                                  !.sent = @ (+) SetToBag({Head(todo).email})])
    /\ UNCHANGED <<store, started>>

\* The sends of all subscribers started together and awaited as one
\* (join_all), instead of one after the other.
PublishSendNext_FanOut(r) ==
    /\ At(r, "publish", "loop")
    /\ LET rec == req[r]
           emails == { rec.list[i].email :
                         i \in { j \in 1..Len(rec.list) : rec.list[j].ok } }
       IN  /\ outbox' = outbox (+) SetToBag(
                 { send_email(e, NewsletterIssue.title,
                              <<NewsletterIssue.content.text>>,
                              <<NewsletterIssue.content.html>>) : e \in emails })
           /\ Step(r, Respond([rec EXCEPT !.sends = @ + Cardinality(emails),
                                          !.list = <<>>,
                                          !.sent = @ (+) SetToBag(emails)],
                              StatusOk))
    /\ UNCHANGED <<store, started>>

\* One turn of `for subscriber in confirmed_subscribers`, or the end of the
\* loop: Ok(HttpResponse::Ok().finish()).
PublishSendNext(r) ==
    /\ At(r, "publish", "loop")
    /\ LET rec == req[r]
       IN  IF rec.list = <<>>
             THEN /\ Step(r, Respond(rec, StatusOk))
                  /\ UNCHANGED outbox
           ELSE IF ~Head(rec.list).ok
             THEN /\ Step(r, [rec EXCEPT !.list = Tail(@)])
                  /\ UNCHANGED outbox
           ELSE \E ok \in BOOLEAN :
                  LET sent == [rec EXCEPT !.sends = @ + 1]
                  IN  /\ outbox' = Gateway(
                           send_email(Head(rec.list).email, NewsletterIssue.title,
                                      <<NewsletterIssue.content.text>>,
                                      <<NewsletterIssue.content.html>>), ok)
                      /\ Step(r,
                                   IF ok THEN [sent EXCEPT
                                                 !.list = Tail(@),
                                                 !.sent = @ (+) SetToBag({Head(rec.list).email})]
                                   ELSE PublishSendFailed(sent))
    /\ UNCHANGED <<store, started>>

\* ------------------------------------------- authentication.rs, login/post.rs
\* get_stored_credentials of database_helper.rs:
\* SELECT user_id, password FROM users WHERE username = $1, fetch_optional
database_helper_get_stored_credentials_AnyUser(username) ==
    IF users = {} THEN {NoUser} ELSE users

database_helper_get_stored_credentials(username) ==
    LET rows == { u \in users : u.username = username }
    IN  IF rows = {} THEN {NoUser} ELSE rows

\* validate_password_hash of authentication.rs: "ok", or the AuthError.
authentication_validate_password_hash(expected_password, password_candidate) ==
    IF ~PasswordHash_new_ok(expected_password) THEN "UnexpectedError"
    ELSE IF ~verify_password(password_candidate, expected_password)
      THEN "InvalidCredentials"
    ELSE "ok"

\* validate_credentials of authentication.rs: Ok(user_id) or Err(AuthError),
\* as [user_id, error]; ok: the query answered; joined: the blocking task
\* was not lost.
authentication_validate_credentials(credentials, ok, row, joined) ==
    LET verdict == authentication_validate_password_hash(row.password,
                                                         credentials.password)
    IN  IF ~ok THEN [user_id |-> "", error |-> "UnexpectedError"]
        ELSE IF row = NoUser THEN [user_id |-> "", error |-> "InvalidCredentials"]
        ELSE IF ~joined THEN [user_id |-> "", error |-> "UnexpectedError"]
        ELSE IF verdict # "ok" THEN [user_id |-> "", error |-> verdict]
        ELSE [user_id |-> row.user_id, error |-> "none"]

\* login: builds Credentials from the form and calls validate_credentials;
\* Ok => 303 See Other; Err(_) => todo!(), a panic: no response is written.
Login(r, username, password) ==
    /\ CanStart(r)
    /\ started' = r
    /\ \E ok \in BOOLEAN, joined \in BOOLEAN,
          row \in database_helper_get_stored_credentials(username) :
         LET credentials == [username |-> username, password |-> password]
             result == authentication_validate_credentials(credentials, ok, row, joined)
             rec == [DbCall(IdleReq) EXCEPT !.kind = "login",
                                           !.credentials = credentials,
                                           !.user_id = result.user_id,
                                           !.error = result.error]
         IN  Step(r, IF result.error = "none" THEN Respond(rec, StatusSeeOther)
                     ELSE Fail(rec, "validate_credentials", 0))
    /\ UNCHANGED <<store, outbox>>

\* ---------------------------------------------------------- specification
Init ==
    /\ subscriptions = {}
    /\ subscription_tokens = {}
    /\ users = ProvisionedUsers
    /\ email_unique = TRUE
    /\ req = [r \in Requests |-> IdleReq]
    /\ started = 0
    /\ outbox = EmptyBag
    /\ response = NoResponse

Next ==
    \E r \in Requests :
        \/ \E form \in Forms : Subscribe(r, form)
        \/ SubscribeGetToken(r)
        \/ SubscribeBegin(r)
        \/ SubscribeInsert(r)
        \/ SubscribeStoreToken(r)
        \/ SubscribeCommit(r)
        \/ SubscribeSendEmail(r)
        \/ \E email \in BagToSet(outbox) : ConfirmClick(r, email)
        \/ \E query \in GuessedQueries : ConfirmGuess(r, query)
        \/ ConfirmUpdate(r)
        \/ \E json \in Bodies, header \in AuthHeaders : PublishNewsletter(r, json, header)
        \/ PublishLoadSubscribers(r)
        \/ PublishSendNext(r)

Spec == Init /\ [][Next]_vars

\* A store that earlier requests filled: subscribers with their tokens, some
\* confirmed, one still pending.
EmailSam == <<"sam", "@", "email.com">>
EmailKim == <<"kim", "@", "email.com">>
EmailLee == <<"lee", "@", "email.com">>
EmailPat == <<"pat", "@", "email.com">>

SeedToken(k) == [i \in 1..TokenLen |-> IF i <= k THEN "7" ELSE "a"]

SeedRow(k, email, status) ==
    [id |-> 100 + k, email |-> email, name |-> NameJon, status |-> status]

SeedTokens(rows) == { store_token(s.id, SeedToken(s.id - 100)) : s \in rows }

SeededStores ==
    { { SeedRow(1, EmailSam, Confirmed), SeedRow(2, EmailKim, Pending) },
      { SeedRow(1, EmailSam, Confirmed), SeedRow(2, EmailKim, Pending),
        SeedRow(3, EmailLee, Confirmed), SeedRow(4, EmailPat, Confirmed) } }

\* A store with a confirmed row whose email was stored before the address
\* was validated.
LegacyStores ==
    { { SeedRow(1, EmailSam, Confirmed), SeedRow(2, NotAnEmail, Confirmed),
        SeedRow(3, EmailLee, Confirmed), SeedRow(4, EmailPat, Pending) } }

\* The requests that filled the store are over: request 1 stands for them.
InitSeeded(stores) ==
    /\ subscriptions \in stores
    /\ subscription_tokens = SeedTokens(subscriptions)
    /\ users = ProvisionedUsers
    /\ email_unique = TRUE
    /\ req = [r \in Requests |-> IF r = 1 THEN DoneReq ELSE IdleReq]
    /\ started = 1
    /\ outbox = EmptyBag
    /\ response = NoResponse

InitPublish == InitSeeded(SeededStores)

SpecPublish == InitPublish /\ [][Next]_vars

InitLegacy == InitSeeded(LegacyStores)

SpecLegacy == InitLegacy /\ [][Next]_vars

\* A store holding a subscriber that has no token row: a row written before
\* subscription_tokens existed, or whose token row was removed by hand.
NoTokenStores ==
    { { SeedRow(1, EmailJon, Pending) }, { SeedRow(1, EmailJon, Confirmed) } }

InitNoToken ==
    /\ subscriptions \in NoTokenStores
    /\ subscription_tokens = {}
    /\ users = ProvisionedUsers
    /\ email_unique = TRUE
    /\ req = [r \in Requests |-> IF r = 1 THEN DoneReq ELSE IdleReq]
    /\ started = 1
    /\ outbox = EmptyBag
    /\ response = NoResponse

SpecNoToken == InitNoToken /\ [][Next]_vars

\* The same server over a subscriptions table created without UNIQUE (email).
InitNoUnique ==
    /\ subscriptions = {}
    /\ subscription_tokens = {}
    /\ users = ProvisionedUsers
    /\ email_unique = FALSE
    /\ req = [r \in Requests |-> IdleReq]
    /\ started = 0
    /\ outbox = EmptyBag
    /\ response = NoResponse

SpecNoUnique == InitNoUnique /\ [][Next]_vars

\* The server right after its first request: a submit for Jon's form that
\* committed its two rows and whose send_confirmation_email then failed.
FormJon == [name |-> NameJon, email |-> EmailJon]

InitRecover ==
    \E token \in generate_subscription_token :
        /\ subscriptions = {insert_subscriber(Uuid_new_v4(1), FormJon)}
        /\ subscription_tokens = {store_token(Uuid_new_v4(1), token)}
        /\ users = ProvisionedUsers
        /\ email_unique = TRUE
        /\ req = [r \in Requests |-> IF r = 1 THEN DoneReq ELSE IdleReq]
        /\ started = 1
        /\ outbox = EmptyBag
        /\ response =
             SubscribeFail([IdleReq EXCEPT !.id = 1, !.kind = "subscribe",
                                           !.form = FormJon, !.path = "new",
                                           !.sid = Uuid_new_v4(1), !.token = token,
                                           !.db = 5, !.sends = 1],
                           "send_confirmation_email")

SpecRecover == InitRecover /\ [][Next]_vars

\* The credential validator on its own: any users table, any credentials.
UserRows ==
    ProvisionedUsers \cup
      { [user_id |-> "user-ghost", username |-> Ghost, password |-> Phc(Wrong)] }

InitValidate ==
    /\ subscriptions = {}
    /\ subscription_tokens = {}
    /\ users \in SUBSET UserRows
    /\ email_unique = TRUE
    /\ req = [r \in Requests |-> IdleReq]
    /\ started = 0
    /\ outbox = EmptyBag
    /\ response = NoResponse

NextValidate ==
    \E r \in Requests, username \in {Admin, Legacy, Ghost}, password \in {Secret, Wrong} :
        Login(r, username, password)

SpecValidate == InitValidate /\ [][NextValidate]_vars

\* The server after Jon subscribed and, in one of the two stores, followed
\* the link of the confirmation email: request 1 stands for those requests.
InitSubscribed ==
    \E token \in generate_subscription_token, status \in {Pending, Confirmed} :
        /\ subscriptions =
             { [insert_subscriber(Uuid_new_v4(1), FormJon) EXCEPT !.status = status] }
        /\ subscription_tokens = {store_token(Uuid_new_v4(1), token)}
        /\ users = ProvisionedUsers
        /\ email_unique = TRUE
        /\ req = [r \in Requests |-> IF r = 1 THEN DoneReq ELSE IdleReq]
        /\ started = 1
        /\ outbox = IF status = Confirmed
                      THEN SetToBag({send_confirmation_email(FormJon, BaseUrl, token)})
                      ELSE EmptyBag
        /\ response = NoResponse

SpecSubscribed == InitSubscribed /\ [][Next]_vars

\* A filled store in which a subscriber has received the confirmation email
\* and not yet followed its link.
InitSnapshot ==
    /\ subscriptions = { SeedRow(1, EmailSam, Confirmed), SeedRow(2, EmailKim, Pending),
                         SeedRow(3, EmailLee, Confirmed) }
    /\ subscription_tokens = SeedTokens(subscriptions)
    /\ users = ProvisionedUsers
    /\ email_unique = TRUE
    /\ req = [r \in Requests |-> IF r = 1 THEN DoneReq ELSE IdleReq]
    /\ started = 1
    /\ outbox = SetToBag({ send_confirmation_email(
                              [name |-> NameJon, email |-> EmailKim],
                              BaseUrl, SeedToken(2)) })
    /\ response = NoResponse

SpecSnapshot == InitSnapshot /\ [][Next]_vars

\* Publish requests on their own over a filled store. The runtime keeps
\* polling a request's task, and each await of the handler resolves, to Ok
\* or to Err (the email client's requests carry a timeout): a step of a
\* request that can be taken is eventually taken.
NextPublish ==
    \E r \in Requests :
        \/ \E json \in Bodies, header \in AuthHeaders : PublishNewsletter(r, json, header)
        \/ PublishLoadSubscribers(r)
        \/ PublishSendNext(r)

FairPublish ==
    \A r \in Requests :
        WF_vars(PublishLoadSubscribers(r)) /\ WF_vars(PublishSendNext(r))

SpecPublishLive == InitPublish /\ [][NextPublish]_vars /\ FairPublish

\* ------------------------------------------------------------------ claims
\* What the claims below speak of.
SubscribeReturned == response.kind = "subscribe" /\ response.pc = "done"
ConfirmReturned == response.kind = "confirm" /\ response.pc = "done"

RowsOfId(id) == { s \in subscriptions : s.id = id }
RowsOfEmail(email) == { s \in subscriptions : s.email = email }
TokensOfId(id) == { t \in subscription_tokens : t.subscriber_id = id }

\* The token a confirmation email carries: its link, parsed as confirm does.
LinkToken(body) == Parameters_subscription_token(url_query(get_link(body)))

\* The emails the step handed to the gateway that it accepted.
Delivered == { e \in BagToSet(outbox') : CopiesIn(e, outbox') > CopiesIn(e, outbox) }

\* Request r takes a step of kind `kind` from position `pc`.
Steps(r, kind, pc) == At(r, kind, pc) /\ req'[r] # req[r]

\* C1: a submit for a valid pair whose email the lookup did not find, and
\* that returns 200, has created exactly one Subscriber row (pending
\* confirmation, with the pair's name and email) and exactly one token row
\* bound to that row's id, both at its commit and by no other step, and has
\* made exactly one email send.
C1_CommitCreatesOnePair ==
    \A r \in Requests :
        Steps(r, "subscribe", "commit") /\ req'[r].pc = "send" =>
            \E s \in subscriptions' \ subscriptions,
               t \in subscription_tokens' \ subscription_tokens :
                /\ subscriptions' = subscriptions \cup {s}
                /\ subscription_tokens' = subscription_tokens \cup {t}
                /\ s.status = Pending
                /\ s.email = req[r].form.email /\ s.name = req[r].form.name
                /\ t.subscriber_id = s.id

C1_OnlyCommitWrites ==
    \A r \in Requests :
        req[r].kind = "subscribe" /\ req'[r] # req[r] /\ req[r].pc # "commit" =>
            UNCHANGED <<subscriptions, subscription_tokens>>

C1_NewSubscriberReturned ==
    SubscribeReturned /\ response.path = "new" /\ response.resp = StatusOk =>
        /\ Cardinality(RowsOfId(response.sid)) = 1
        /\ Cardinality(TokensOfId(response.sid)) = 1
        /\ \A s \in RowsOfId(response.sid) : s.email = response.form.email
        /\ response.sends = 1

C1_SubmitNew ==
    /\ []C1_NewSubscriberReturned
    /\ [][C1_CommitCreatesOnePair /\ C1_OnlyCommitWrites]_vars

C1_Witness ==
    SubscribeReturned /\ response.path = "new" /\ response.resp = StatusOk

\* C2: a submit whose lookup finds a subscriber for the email writes no
\* Subscriber row and no token row, whatever the number of such calls; once
\* its two store reads have succeeded it makes exactly one send, of an email
\* to that address whose links carry the token stored for the subscriber.
C2_ResendWritesNothing ==
    \A r \in Requests :
        req[r].kind = "subscribe" /\ req[r].path = "existing" /\ req'[r] # req[r] =>
            UNCHANGED <<subscriptions, subscription_tokens>>

C2_ResendSendsStoredToken ==
    \A r \in Requests :
        Steps(r, "subscribe", "send") /\ req[r].path = "existing" =>
            /\ response'.sends = 1
            /\ response'.resp = StatusOk =>
                 /\ BagCardinality(outbox') = BagCardinality(outbox) + 1
                 /\ \A e \in Delivered :
                      /\ e.to = req[r].form.email
                      /\ \E t \in TokensOfId(req[r].sid) :
                           /\ LinkToken(e.html_body) = t.subscription_token
                           /\ LinkToken(e.text_body) = t.subscription_token

C2_ResendReturned ==
    /\ SubscribeReturned /\ response.path = "existing"
    /\ response.failed \notin {"get_subscriber_id_from_email",
                               "get_subscription_token_from_id"}
    => /\ response.sends = 1
       /\ store_token(response.sid, response.token) \in subscription_tokens
       /\ \E s \in RowsOfId(response.sid) : s.email = response.form.email

C2_Resubmit ==
    /\ []C2_ResendReturned
    /\ [][C2_ResendWritesNothing /\ C2_ResendSendsStoredToken]_vars

C2_Witness ==
    /\ SubscribeReturned /\ response.path = "existing" /\ response.resp = StatusOk
    /\ \E s \in RowsOfId(response.sid) : s.status = Pending

\* C3: under every interleaving of submit, confirm and publish steps a
\* status is pending confirmation or confirmed, no row disappears, and a
\* subscriber that is confirmed is confirmed after every step.
C3_StatusOnlyAdvances ==
    [][ \A s \in subscriptions :
          \E n \in subscriptions' :
             /\ n.id = s.id
             /\ n.status \in {Pending, Confirmed}
             /\ s.status = Confirmed => n.status = Confirmed ]_vars

C3_Witness ==
    /\ SubscribeReturned /\ response.resp = StatusOk
    /\ \E s \in RowsOfId(response.sid) : s.status = Confirmed

\* C4: with UNIQUE on subscriptions.email, no two Subscriber rows share an
\* email, whatever the interleaving of concurrent submits.
C4_NoDuplicateEmail ==
    email_unique =>
        \A s1, s2 \in subscriptions : s1.email = s2.email => s1 = s2

C4_Witness ==
    /\ SubscribeReturned /\ response.failed = "insert_subscriber"
    /\ RowsOfEmail(response.form.email) # {}

\* C5: the committed store never holds a Subscriber row without its token
\* row or a token row without its Subscriber row; a submit whose subscriber
\* insert, token insert or commit fails returns 500, has sent no email, and
\* leaves no row of its own in either table.
C5_BothOrNeither ==
    /\ \A s \in subscriptions : TokensOfId(s.id) # {}
    /\ \A t \in subscription_tokens : RowsOfId(t.subscriber_id) # {}

C5_FailedTransaction ==
    /\ SubscribeReturned
    /\ response.failed \in {"insert_subscriber", "store_token", "commit"}
    => /\ response.resp = StatusInternalServerError
       /\ response.sends = 0
       /\ RowsOfId(Uuid_new_v4(response.id)) = {}
       /\ TokensOfId(Uuid_new_v4(response.id)) = {}

C5_Atomic == C5_BothOrNeither /\ C5_FailedTransaction

C5_Witness ==
    /\ SubscribeReturned /\ response.failed = "commit"
    /\ response.tx = NoTx /\ response.sid # NoId

\* C6: every Subscriber has at most one token row, no two token rows hold
\* the same token, and every token row is bound to one Subscriber row that
\* is in the store.
C6_TokenInvariant ==
    /\ \A s \in subscriptions : Cardinality(TokensOfId(s.id)) <= 1
    /\ \A t1, t2 \in subscription_tokens :
         t1.subscription_token = t2.subscription_token => t1 = t2
    /\ \A t \in subscription_tokens : Cardinality(RowsOfId(t.subscriber_id)) = 1

C6_Witness ==
    \E t1, t2 \in subscription_tokens : t1.subscriber_id # t2.subscriber_id

\* C7: a submit whose name is empty, whose email is empty or whose email is
\* 'not-an-email' returns 400 having made no store call and no send, and
\* its step leaves the store and the outbox as they were; no such form ever
\* gets past validation.
C7_Invalid(form) ==
    form.name = EmptyString \/ form.email = EmptyString \/ form.email = NotAnEmail

C7_Rejected ==
    /\ SubscribeReturned /\ C7_Invalid(response.form) =>
         /\ response.resp = StatusBadRequest
         /\ response.db = 0
         /\ response.sends = 0
    /\ \A r \in Requests :
         req[r].kind = "subscribe" /\ req[r].pc # "done" => ~C7_Invalid(req[r].form)

C7_StoreUntouched ==
    SubscribeReturned' /\ C7_Invalid(response'.form) =>
        UNCHANGED <<subscriptions, subscription_tokens, users, outbox>>

C7_ValidationFailure == []C7_Rejected /\ [][C7_StoreUntouched]_vars

C7_Witness ==
    /\ SubscribeReturned /\ response.resp = StatusBadRequest
    /\ response.form.email = NotAnEmail
    /\ subscriptions # {}

\* C8: when the send of the confirmation email fails after the new
\* subscriber's commit, submit returns 500 and that step changes no row:
\* the Subscriber row and its token row are still in the store, with the
\* status the row had (no rollback, no delete).
C8_SendFailureKeepsRows ==
    [][ \A r \in Requests :
          /\ Steps(r, "subscribe", "send") /\ req[r].path = "new"
          /\ response'.failed = "send_confirmation_email"
          => /\ response'.resp = StatusInternalServerError
             /\ UNCHANGED <<subscriptions, subscription_tokens, outbox>>
             /\ \E s \in subscriptions' :
                  s.id = req[r].sid /\ s.email = req[r].form.email
             /\ store_token(req[r].sid, req[r].token) \in subscription_tokens' ]_vars

C8_Witness ==
    /\ SubscribeReturned /\ response.path = "new"
    /\ response.failed = "send_confirmation_email"
    /\ \E s \in RowsOfId(response.sid) : s.status = Pending
    /\ TokensOfId(response.sid) # {}

\* C9: the link of every confirmation email in the outbox carries a token
\* that is stored, bound to a subscriber with the email's address; a confirm
\* with the token of such a link never returns 401 or 400: it returns 200,
\* with that subscriber confirmed and no other row changed, unless one of
\* its two store calls failed (500).
C9_EmailedTokenIsStored ==
    \A e \in BagToSet(outbox) :
        e.subject = "Welcome" =>
            \E t \in subscription_tokens :
                /\ t.subscription_token = LinkToken(e.html_body)
                /\ \E s \in RowsOfId(t.subscriber_id) : s.email = e.to

C9_ClickReturned ==
    ConfirmReturned /\ response.recipient # <<>> =>
        /\ response.resp \in {StatusOk, StatusInternalServerError}
        /\ response.resp = StatusInternalServerError =>
             response.failed \in {"get_subscriber_id_from_token", "confirm_subscriber"}
        /\ response.resp = StatusOk =>
             \E s \in RowsOfId(response.sid) :
                 s.email = response.recipient /\ s.status = Confirmed

C9_ConfirmSetsOneStatus ==
    \A r \in Requests :
        Steps(r, "confirm", "update") /\ response'.resp = StatusOk =>
            /\ \A s \in subscriptions : s.id # req[r].sid => s \in subscriptions'
            /\ \A n \in subscriptions' :
                 n \in subscriptions \/ (n.id = req[r].sid /\ n.status = Confirmed)
            /\ Cardinality(subscriptions') = Cardinality(subscriptions)
            /\ UNCHANGED subscription_tokens

C9_RoundTrip ==
    /\ [](C9_EmailedTokenIsStored /\ C9_ClickReturned)
    /\ [][C9_ConfirmSetsOneStatus]_vars

C9_Witness ==
    ConfirmReturned /\ response.recipient # <<>> /\ response.resp = StatusOk

\* C10: a confirm whose token has the generated shape (25 alphanumeric
\* characters) and is in no token row returns 401 once its lookup has
\* answered, and the step changes no subscriber, no token row, nothing else.
WellFormedToken(token) ==
    Len(token) = TokenLen /\ \A i \in 1..Len(token) : token[i] \in Alphanumeric

C10_UnknownTokenUnauthorized ==
    [][ /\ ConfirmReturned'
        /\ WellFormedToken(response'.token)
        /\ response'.failed = "none"
        /\ \A t \in subscription_tokens : t.subscription_token # response'.token
        => /\ response'.resp = StatusUnauthorized
           /\ UNCHANGED <<subscriptions, subscription_tokens, users, outbox>> ]_vars

C10_Witness ==
    /\ ConfirmReturned /\ response.resp = StatusUnauthorized
    /\ WellFormedToken(response.token)
    /\ subscription_tokens # {}

\* C11: a confirm whose token is stored for a subscriber that is already
\* confirmed is never rejected (no 400, no 401); its update leaves every
\* table as it was, with the subscriber still confirmed, and it answers 200
\* again unless the update itself failed (500).
C11_ConfirmedNotRejected ==
    /\ ConfirmReturned
    /\ \E t \in subscription_tokens :
         /\ t.subscription_token = response.token
         /\ \E s \in RowsOfId(t.subscriber_id) : s.status = Confirmed
    => /\ response.resp \in {StatusOk, StatusInternalServerError}
       /\ response.resp = StatusInternalServerError =>
            response.failed \in {"get_subscriber_id_from_token", "confirm_subscriber"}

C11_SecondConfirmChangesNothing ==
    \A r \in Requests :
        /\ Steps(r, "confirm", "update")
        /\ \E s \in RowsOfId(req[r].sid) : s.status = Confirmed
        => /\ response'.resp = StatusOk \/ response'.failed = "confirm_subscriber"
           /\ response'.status_before = Confirmed
           /\ UNCHANGED <<subscriptions, subscription_tokens, users, outbox>>

C11_ConfirmIdempotent ==
    /\ []C11_ConfirmedNotRejected
    /\ [][C11_SecondConfirmChangesNothing]_vars

C11_Witness ==
    /\ ConfirmReturned /\ response.resp = StatusOk
    /\ response.status_before = Confirmed
    /\ \E s \in RowsOfId(response.sid) : s.status = Confirmed

\* C13: a confirmation request whose query has no subscription_token
\* parameter at all is answered 400 by the extractor: the handler made no
\* store call and found no subscriber, and the step leaves every table and
\* the outbox as they were.
C13_NoTokenParam(query) == \A i \in 1..Len(query) : query[i] # TokenParam

C13_Rejected ==
    ConfirmReturned /\ C13_NoTokenParam(response.query) =>
        /\ response.resp = StatusBadRequest
        /\ response.failed = "Query<Parameters>"
        /\ response.db = 0
        /\ response.sid = NoId

C13_StoreUntouched ==
    ConfirmReturned' /\ C13_NoTokenParam(response'.query) =>
        UNCHANGED <<subscriptions, subscription_tokens, users, outbox>>

C13_MissingParameter == []C13_Rejected /\ [][C13_StoreUntouched]_vars

C13_Witness ==
    /\ ConfirmReturned /\ C13_NoTokenParam(response.query)
    /\ response.resp = StatusBadRequest
    /\ \E s \in subscriptions : s.status = Pending

\* C12: confirm does not examine the shape of the token.  A request whose
\* subscription_token is present but is not 25 alphanumeric characters goes
\* to the store like any other: one lookup, which finds no row, so the
\* answer is 401 (500 when the lookup itself fails), never 400, and the step
\* changes no table.
C12_Malformed(rec) ==
    ~C13_NoTokenParam(rec.query) /\ ~WellFormedToken(rec.token)

C12_LookedUpAndRefused ==
    ConfirmReturned /\ C12_Malformed(response) =>
        /\ response.db = 1
        /\ response.resp \in {StatusUnauthorized, StatusInternalServerError}
        /\ response.resp = StatusInternalServerError =>
             response.failed = "get_subscriber_id_from_token"

C12_StoreUntouched ==
    ConfirmReturned' /\ C12_Malformed(response') =>
        UNCHANGED <<subscriptions, subscription_tokens, users, outbox>>

C12_MalformedTokenUnauthorized ==
    []C12_LookedUpAndRefused /\ [][C12_StoreUntouched]_vars

C12_Witness ==
    /\ ConfirmReturned /\ C12_Malformed(response)
    /\ response.resp = StatusUnauthorized /\ response.db = 1
    /\ subscription_tokens # {}

\* C12 as stated: the shape is validated first, so a malformed token is
\* answered 401 before any store access.
C12_ShapeValidatedFirst ==
    ConfirmReturned /\ C12_Malformed(response) =>
        response.resp = StatusUnauthorized /\ response.db = 0

\* What the publish claims speak of.
PublishReturned == response.kind = "publish" /\ response.pc = "done"

\* The exact challenge header value, and the headers reqwest's basic_auth
\* can build from a username and a password.
Challenge == "Basic realm=\"publish\""
BasicAuthHeaders ==
    { BasicHeader(u, p) : u \in {Admin, Legacy, Ghost}, p \in {Secret, Wrong} }

\* The store call or the blocking task itself failed: an internal error,
\* whatever the credentials.
ValidatorBroke(rec) == rec.failed \in {"get_stored_credentials", "spawn_blocking"}

UnknownUsername(rec) ==
    \E p \in {Secret, Wrong} :
        /\ rec.header = BasicHeader(Ghost, p)
        /\ \A u \in users : u.username # Ghost

WrongPassword(rec) ==
    /\ rec.header = BasicHeader(Admin, Wrong)
    /\ \E u \in users : u.username = Admin /\ u.password = Phc(Secret)

\* C15: a publish (its body deserialized) whose Authorization header is
\* missing or not a Basic header of username:password, whose username is
\* unknown or whose password is wrong answers 401 with WWW-Authenticate:
\* Basic realm="publish", unless the credential lookup itself broke (500);
\* in every such case it has read no subscriber list and made no send, and
\* the step changes neither the tables nor the outbox.
C15_NotAuthenticated(rec) ==
    \/ rec.header \notin BasicAuthHeaders
    \/ UnknownUsername(rec)
    \/ WrongPassword(rec)

C15_Unauthorized ==
    PublishReturned /\ response.has_body /\ C15_NotAuthenticated(response) =>
        /\ ValidatorBroke(response) \/
             /\ response.resp = StatusUnauthorized
             /\ response.www_authenticate = Challenge
        /\ response.sends = 0
        /\ response.list = <<>>
        /\ response.db <= 1
        /\ response.user_id = ""

C15_NothingDone ==
    PublishReturned' /\ C15_NotAuthenticated(response') =>
        UNCHANGED <<subscriptions, subscription_tokens, users, outbox>>

C15_AuthenticatesFirst == []C15_Unauthorized /\ [][C15_NothingDone]_vars

C15_Witness ==
    /\ PublishReturned /\ response.has_body /\ response.header = <<>>
    /\ response.resp = StatusUnauthorized /\ response.www_authenticate = Challenge
    /\ \E s \in subscriptions : s.status = Confirmed

\* C16: what the client sees (status and challenge header) is the same for
\* an unknown username and for a known username with a wrong password, both
\* as validate_credentials computes it and in every response given; a wrong
\* password is answered 401, never 500, once the stored row has been read.
C16_Outcome(rec) == <<rec.resp, rec.www_authenticate>>

C16_With(username, password) ==
    [IdleReq EXCEPT !.kind = "publish", !.has_body = TRUE,
                    !.header = BasicHeader(username, password),
                    !.credentials = [username |-> username, password |-> password]]

C16_SameOutcome ==
    \A unknown \in get_stored_credentials(Ghost), known \in get_stored_credentials(Admin) :
        C16_Outcome(validate_credentials(C16_With(Ghost, Secret), TRUE, unknown, TRUE))
          = C16_Outcome(validate_credentials(C16_With(Admin, Wrong), TRUE, known, TRUE))

C16_Responses ==
    /\ PublishReturned /\ response.has_body /\ ~ValidatorBroke(response)
    /\ UnknownUsername(response) \/ WrongPassword(response)
    => /\ C16_Outcome(response) = <<StatusUnauthorized, Challenge>>
       /\ response.user_id = ""

C16_Opaque == C16_SameOutcome /\ C16_Responses

C16_Witness ==
    /\ PublishReturned /\ WrongPassword(response)
    /\ response.failed = "validate_password_hash"
    /\ response.resp = StatusUnauthorized

\* C17 as stated, for publish: when the row stored for the username holds a
\* password that is not a PHC string, publish answers 500, not 401.
C17_MalformedHashIsInternalError ==
    /\ PublishReturned /\ response.has_body
    /\ \E u \in users :
         /\ u.username = response.credentials.username
         /\ ~PasswordHash_new_ok(u.password)
    => response.resp = StatusInternalServerError

\* C18: validate_credentials gives a user id only when a row of users
\* holds the username with the hash of the candidate password, and then it
\* is that row's user id and there is no error; in every other case it
\* gives an error and no user id.
LoginReturned == response.kind = "login" /\ response.pc = "done"

C18_UserIdOnlyOnMatch ==
    LoginReturned =>
        /\ response.user_id # "" =>
             /\ response.error = "none"
             /\ \E u \in users :
                  /\ u.username = response.credentials.username
                  /\ u.password = Phc(response.credentials.password)
                  /\ u.user_id = response.user_id
        /\ response.user_id = "" =>
             response.error \in {"InvalidCredentials", "UnexpectedError"}
        /\ (\A u \in users :
              \/ u.username # response.credentials.username
              \/ u.password # Phc(response.credentials.password))
           => response.user_id = "" /\ response.error # "none"

C18_Witness ==
    /\ LoginReturned /\ response.user_id = "user-admin"
    /\ response.credentials = [username |-> Admin, password |-> Secret]
    /\ Cardinality(users) = 3

\* The newsletter emails in the outbox, and the stored emails by status.
NewsletterTo(email) ==
    send_email(email, NewsletterIssue.title,
               <<NewsletterIssue.content.text>>, <<NewsletterIssue.content.html>>)

EmailsWithStatus(status) == { s.email : s \in { x \in subscriptions : x.status = status } }

HasAt(email) == \E i \in 1..Len(email) : email[i] = "@"

\* C14: publish reads exactly the subscribers that are confirmed when it
\* loads them, each once; every send of the loop is one newsletter email
\* to the subscriber at the head of the list; and a publish that returns 200
\* has sent exactly one email to each subscriber it loaded and none to a
\* subscriber that is pending confirmation.
C14_LoadsTheConfirmed ==
    \A r \in Requests :
        Steps(r, "publish", "load") /\ req'[r].pc = "loop" =>
            /\ req'[r].loaded = EmailsWithStatus(Confirmed)
            /\ Len(req'[r].list) = Cardinality(EmailsWithStatus(Confirmed))
            /\ \A e \in EmailsWithStatus(Pending) :
                 \A i \in 1..Len(req'[r].list) : req'[r].list[i].email # e

C14_OneEmailPerTurn ==
    \A r \in Requests :
        Steps(r, "publish", "loop") /\ outbox' # outbox =>
            /\ req[r].list # <<>>
            /\ outbox' = outbox (+) SetToBag({NewsletterTo(Head(req[r].list).email)})
            /\ Head(req[r].list).email \in EmailsWithStatus(Confirmed)

C14_SuccessfulPublish ==
    PublishReturned /\ response.resp = StatusOk =>
        /\ response.sent = SetToBag({ e \in response.loaded : HasAt(e) })
        /\ response.sends = BagCardinality(response.sent)
        /\ \A e \in BagToSet(response.sent) :
             /\ e \in EmailsWithStatus(Confirmed)
             /\ e \notin EmailsWithStatus(Pending)
             /\ CopiesIn(NewsletterTo(e), outbox) >= 1

C14_ConfirmedOnly ==
    /\ []C14_SuccessfulPublish
    /\ [][C14_LoadsTheConfirmed /\ C14_OneEmailPerTurn]_vars

C14_Witness ==
    /\ PublishReturned /\ response.resp = StatusOk
    /\ response.sends = 1
    /\ BagToSet(outbox) = {NewsletterTo(EmailSam)} /\ BagCardinality(outbox) = 1
    /\ subscriptions = { SeedRow(1, EmailSam, Confirmed), SeedRow(2, EmailKim, Pending) }

\* C19: a turn of the loop whose subscriber's stored email does not parse
\* sends nothing and goes on to the next subscriber; a publish that returns
\* 200 over a list holding such a row has sent one email to every other
\* confirmed subscriber it loaded and none to the malformed address,
\* wherever the row stood in the list.
C19_SkipsAndGoesOn ==
    \A r \in Requests :
        /\ Steps(r, "publish", "loop")
        /\ req[r].list # <<>>
        /\ ~HasAt(Head(req[r].list).email)
        => /\ outbox' = outbox
           /\ req'[r].pc = "loop"
           /\ req'[r].list = Tail(req[r].list)
           /\ req'[r].sends = req[r].sends

C19_OthersAreEmailed ==
    /\ PublishReturned /\ response.resp = StatusOk
    /\ \E e \in response.loaded : ~HasAt(e)
    => /\ response.sent = SetToBag({ e \in response.loaded : HasAt(e) })
       /\ response.sends = Cardinality({ e \in response.loaded : HasAt(e) })
       /\ \A e \in response.loaded :
            IF HasAt(e) THEN CopiesIn(NewsletterTo(e), outbox) >= 1
                        ELSE /\ CopiesIn(NewsletterTo(e), outbox) = 0
                             /\ e \notin BagToSet(response.sent)

C19_MalformedEmailSkipped ==
    []C19_OthersAreEmailed /\ [][C19_SkipsAndGoesOn]_vars

C19_Witness ==
    /\ PublishReturned /\ response.resp = StatusOk
    /\ NotAnEmail \in response.loaded
    /\ response.sends = 2
    /\ BagToSet(outbox) = {NewsletterTo(EmailSam), NewsletterTo(EmailLee)}

\* C20: the step in which a send of the loop fails ends the request with
\* 500: the outbox is as it was (the failed email is not delivered, the
\* earlier ones stay), the failed subscriber and every later one are still
\* on the list, and exactly one send was attempted beyond those that
\* succeeded; no step ever takes an email out of the outbox.
C20_FailedSendEndsRequest ==
    \A r \in Requests :
        /\ Steps(r, "publish", "loop")
        /\ req[r].list # <<>> /\ HasAt(Head(req[r].list).email)
        /\ outbox' = outbox
        => /\ req'[r] = DoneReq
           /\ response'.resp = StatusInternalServerError
           /\ response'.failed = "send_email"
           /\ response'.list = req[r].list
           /\ response'.sent = req[r].sent
           /\ response'.sends = req[r].sends + 1

C20_NothingUnsent ==
    \A e \in BagToSet(outbox) : CopiesIn(e, outbox') >= CopiesIn(e, outbox)

C20_AbortedBatch ==
    PublishReturned /\ response.failed = "send_email" =>
        /\ response.resp = StatusInternalServerError
        /\ response.sends = BagCardinality(response.sent) + 1
        /\ response.list # <<>>
        /\ \A i \in 1..Len(response.list) :
             response.list[i].email \notin BagToSet(response.sent)
        /\ \A e \in BagToSet(response.sent) : CopiesIn(NewsletterTo(e), outbox) >= 1

C20_SendFailureAborts ==
    /\ []C20_AbortedBatch
    /\ [][C20_FailedSendEndsRequest /\ C20_NothingUnsent]_vars

C20_Witness ==
    /\ PublishReturned /\ response.failed = "send_email"
    /\ response.resp = StatusInternalServerError
    /\ BagCardinality(response.sent) = 1
    /\ Len(response.list) = 2
    /\ BagCardinality(outbox) = 1

\* C21: an authenticated publish that returns while no subscriber is
\* confirmed (the store is empty, or every subscriber is pending
\* confirmation) has loaded an empty list and called send_email zero times,
\* and it returned 200 unless its own load of the subscribers failed (500);
\* and while no subscriber is confirmed no newsletter email has been sent.
C21_NoneConfirmed == EmailsWithStatus(Confirmed) = {}

C21_EmptyPublish ==
    /\ PublishReturned /\ response.user_id # "" /\ C21_NoneConfirmed =>
         /\ response.failed \in {"none", "get_confirmed_subscribers"}
         /\ response.failed = "none" => response.resp = StatusOk
         /\ response.failed # "none" => response.resp = StatusInternalServerError
         /\ response.loaded = {}
         /\ response.sends = 0
         /\ response.sent = EmptyBag
    /\ C21_NoneConfirmed => \A e \in BagToSet(outbox) : e.subject = "Welcome"

C21_Witness ==
    /\ PublishReturned /\ response.user_id # "" /\ C21_NoneConfirmed
    /\ EmailsWithStatus(Pending) # {}
    /\ response.resp = StatusOk
    /\ response.sends = 0

\* C22: a publish whose JSON body lacks title or lacks content returns 400,
\* whatever its Authorization header, without a store call and without a
\* send_email call.
C22_Malformed(rec) == ~({"title", "content"} \subseteq rec.body_fields)

C22_MalformedBody ==
    PublishReturned /\ C22_Malformed(response) =>
        /\ response.resp = StatusBadRequest
        /\ response.db = 0
        /\ response.sends = 0
        /\ response.sent = EmptyBag

C22_Witness ==
    /\ PublishReturned /\ C22_Malformed(response)
    /\ response.header = BasicHeader(Admin, Secret)
    /\ EmailsWithStatus(Confirmed) # {}
    /\ response.resp = StatusBadRequest
    /\ \A e \in BagToSet(outbox) : e.subject = "Welcome"

\* C23: every confirmation email in the outbox (sent on the new path or on
\* the resend path) carries, in its plain-text body and in its HTML body,
\* the same link, and that link is
\* <base_url>/subscriptions/confirm?subscription_token=<token> for a token
\* stored for a subscriber with the email's address.
C23_Link(token) ==
    BaseUrl \o <<"/subscriptions/confirm", "?", "subscription_token", "=">> \o token

C23_LinkInBothBodies ==
    \A e \in BagToSet(outbox) :
        e.subject = "Welcome" =>
            /\ get_link(e.html_body) = get_link(e.text_body)
            /\ \E s \in RowsOfEmail(e.to) :
                 \E t \in TokensOfId(s.id) :
                     get_link(e.text_body) = C23_Link(t.subscription_token)

C23_Witness ==
    /\ SubscribeReturned /\ response.path = "existing" /\ response.resp = StatusOk
    /\ \E e \in BagToSet(outbox) :
         /\ e.subject = "Welcome" /\ e.to = response.form.email
         /\ CopiesIn(e, outbox) = 2
         /\ get_link(e.text_body) = C23_Link(response.token)

\* C24: when the token query of submit's existing-subscriber path answers
\* for a subscriber that has no token row, the request ends there with 500:
\* no send_email call, no email delivered, no row added to or changed in
\* either table (no replacement token is stored).
C24_NoTokenEndsRequest ==
    \A r \in Requests :
        /\ Steps(r, "subscribe", "get_token")
        /\ TokensOfId(req[r].sid) = {}
        => /\ req'[r] = DoneReq
           /\ response'.id = r
           /\ response'.resp = StatusInternalServerError
           /\ response'.sends = 0
           /\ response'.token = None
           /\ UNCHANGED <<subscriptions, subscription_tokens, outbox>>

C24_TakesExistingPath ==
    \A r \in Requests :
        \A s \in subscriptions :
            /\ req[r].pc = "idle" /\ req'[r].kind = "subscribe"
            /\ req'[r].form.email = s.email /\ TokensOfId(s.id) = {}
            => /\ req'[r].pc = "get_token"
               /\ req'[r].sid = s.id
               /\ UNCHANGED <<subscriptions, subscription_tokens, outbox>>

C24_NoReplacementToken ==
    \A s \in subscriptions :
        s.id > 100 =>
            /\ TokensOfId(s.id) = {}
            /\ \A e \in BagToSet(outbox) : e.subject = "Welcome" => e.to # s.email

C24_MissingToken ==
    /\ []C24_NoReplacementToken
    /\ [][C24_NoTokenEndsRequest /\ C24_TakesExistingPath]_vars

C24_Witness ==
    /\ SubscribeReturned /\ response.path = "existing"
    /\ response.form.email = EmailJon
    /\ TokensOfId(response.sid) = {}
    /\ response.failed = "none"
    /\ response.resp = StatusInternalServerError
    /\ response.db = 2
    /\ response.sends = 0

\* C25: submit decides between its two paths by one lookup of the committed
\* rows, made before its transaction begins, and compares the email with
\* the store at no later step: a submit goes on to insert exactly when no
\* committed row held the email at the lookup, and in a store that does not
\* enforce uniqueness on email its insert and commit then add its row
\* whatever the store holds by that time. Two concurrent submits for one
\* unseen email so both pass the lookup, both insert, and leave two
\* Subscriber rows with the same email.
C25_LookupDecides ==
    \A r \in Requests :
        /\ req[r].pc = "idle" /\ req'[r].kind = "subscribe"
        /\ req'[r].pc # "done"
        => /\ req'[r].path = "new" <=> RowsOfEmail(req'[r].form.email) = {}
           /\ req'[r].path = "new" => req'[r].pc = "begin"
           /\ req'[r].path = "existing" =>
                \E s \in RowsOfEmail(req'[r].form.email) : req'[r].sid = s.id

C25_InsertNotChecked ==
    \A r \in Requests :
        /\ Steps(r, "subscribe", "insert") /\ req'[r].pc = "store_token"
           => req'[r].tx.subs =
                { [id |-> req'[r].sid, email |-> req[r].form.email,
                   name |-> req[r].form.name, status |-> Pending] }
        /\ Steps(r, "subscribe", "commit") /\ req'[r].pc = "send"
           => /\ subscriptions' = subscriptions \cup req[r].tx.subs
              /\ Cardinality({ s \in subscriptions' : s.email = req[r].form.email })
                   = Cardinality(RowsOfEmail(req[r].form.email)) + 1

C25_CheckThenInsertRace ==
    [][C25_LookupDecides /\ C25_InsertNotChecked]_vars

C25_Witness ==
    /\ ~email_unique
    /\ \E r1, r2 \in Requests :
         /\ r1 # r2
         /\ At(r1, "subscribe", "send") /\ At(r2, "subscribe", "send")
         /\ req[r1].path = "new" /\ req[r2].path = "new"
         /\ req[r1].form.email = req[r2].form.email
         /\ \E s1, s2 \in subscriptions :
              /\ s1.id = req[r1].sid /\ s2.id = req[r2].sid
              /\ s1.email = s2.email /\ s1 # s2

\* C26: a submit that stands before its send_confirmation_email call has no
\* transaction open, and the token it is about to send is committed, bound
\* to a committed subscriber with the form's email; every confirmation
\* email a step hands to the gateway carries a token that was in the store,
\* bound to a subscriber with the recipient's address, before that step;
\* and a token that is still in an open transaction is in no email.
C26_ReadyToSend ==
    \A r \in Requests :
        At(r, "subscribe", "send") =>
            /\ req[r].tx = NoTx
            /\ store_token(req[r].sid, req[r].token) \in subscription_tokens
            /\ \E s \in RowsOfId(req[r].sid) : s.email = req[r].form.email

C26_UncommittedNotSent ==
    \A r \in Requests :
        \A t \in req[r].tx.toks :
            /\ req[r].sends = 0
            /\ \A e \in BagToSet(outbox) :
                 e.subject = "Welcome" => LinkToken(e.html_body) # t.subscription_token

C26_SentTokenWasStored ==
    \A e \in Delivered :
        e.subject = "Welcome" =>
            \E t \in subscription_tokens :
                /\ t.subscription_token = LinkToken(e.text_body)
                /\ \E s \in RowsOfId(t.subscriber_id) : s.email = e.to
                /\ t \in subscription_tokens'

C26_SendAfterPersistence ==
    /\ [](C26_ReadyToSend /\ C26_UncommittedNotSent)
    /\ [][C26_SentTokenWasStored]_vars

C26_Witness ==
    /\ \E r \in Requests :
         /\ At(r, "subscribe", "send") /\ req[r].path = "new"
         /\ store_token(req[r].sid, req[r].token) \in subscription_tokens
    /\ \E q \in Requests :
         /\ At(q, "subscribe", "commit")
         /\ req[q].tx.toks # {}

\* C27: after a submit that committed its rows and whose email send failed,
\* every later submit with the same email is on the existing-subscriber
\* path with the first call's subscriber id and never opens a transaction;
\* the store keeps exactly the first call's Subscriber row and token row
\* for that email; such a submit returns 200 unless one of its two store
\* reads or its send failed, and when it returns 200 it has made one send,
\* of an email whose link carries the token the first call stored.
C27_FirstId == Uuid_new_v4(1)

C27_NoNewRow ==
    /\ \A s \in RowsOfEmail(EmailJon) : s.id = C27_FirstId /\ s.name = NameJon
    /\ Cardinality(RowsOfEmail(EmailJon)) = 1
    /\ Cardinality(TokensOfId(C27_FirstId)) = 1
    /\ \A r \in Requests :
         req[r].kind = "subscribe" /\ req[r].form.email = EmailJon =>
             /\ req[r].path = "existing"
             /\ req[r].sid = C27_FirstId
             /\ req[r].tx = NoTx

C27_ResendsStoredToken ==
    SubscribeReturned /\ response.id > 1 /\ response.form = FormJon =>
        /\ response.failed \in {"none", "get_subscriber_id_from_email",
                                "get_subscription_token_from_id",
                                "send_confirmation_email"}
        /\ response.failed = "none" => response.resp = StatusOk
        /\ response.failed # "get_subscriber_id_from_email" =>
             response.path = "existing" /\ response.sid = C27_FirstId
        /\ response.db <= 2
        /\ response.resp = StatusOk =>
             /\ response.sends = 1
             /\ store_token(C27_FirstId, response.token) \in subscription_tokens
             /\ \E e \in BagToSet(outbox) :
                  /\ e.to = EmailJon /\ e.subject = "Welcome"
                  /\ get_link(e.text_body) = C23_Link(response.token)

C27_StoredTokenOnly ==
    \A e \in BagToSet(outbox) :
        e.subject = "Welcome" /\ e.to = EmailJon =>
            \E t \in TokensOfId(C27_FirstId) :
                t.subscription_token = LinkToken(e.html_body)

C27_RecoveryByResubmission ==
    C27_NoNewRow /\ C27_ResendsStoredToken /\ C27_StoredTokenOnly

C27_Witness ==
    /\ SubscribeReturned /\ response.id = 2 /\ response.form = FormJon
    /\ response.path = "existing"
    /\ response.resp = StatusOk
    /\ BagCardinality(outbox) = 1
    /\ \E e \in BagToSet(outbox) :
         \E t \in TokensOfId(C27_FirstId) :
             e.to = EmailJon /\ LinkToken(e.html_body) = t.subscription_token

\* C28: a turn of publish's loop makes at most one send_email call, for the
\* subscriber at the head of the remaining list, and that call has finished
\* when the turn ends; the loop moves on to the next subscriber of the list,
\* and only to the next, only when the call returned Ok (or the stored email
\* did not parse and nothing was sent); a failed call ends the request with
\* the list where it stood. So while a publish is between turns every send
\* it started has completed successfully and no later subscriber was sent to.
C28_After(r) == IF req'[r].pc = "done" THEN response' ELSE req'[r]

C28_OneSendPerTurn ==
    \A r \in Requests :
        Steps(r, "publish", "loop") /\ req[r].list # <<>> =>
            LET head == Head(req[r].list)
                calls == C28_After(r).sends - req[r].sends
            IN  /\ calls = IF HasAt(head.email) THEN 1 ELSE 0
                /\ BagCardinality(outbox') - BagCardinality(outbox) \in {0, calls}
                /\ \A e \in Delivered : e = NewsletterTo(head.email)
                /\ C28_After(r).pc = "loop" =>
                     /\ C28_After(r).list = Tail(req[r].list)
                     /\ HasAt(head.email) =>
                          /\ Delivered = {NewsletterTo(head.email)}
                          /\ C28_After(r).sent =
                               req[r].sent (+) SetToBag({head.email})
                /\ C28_After(r).pc = "done" =>
                     /\ Delivered = {}
                     /\ C28_After(r).failed = "send_email"
                     /\ C28_After(r).list = req[r].list
                     /\ C28_After(r).sent = req[r].sent

C28_NoneOutstanding ==
    \A r \in Requests :
        At(r, "publish", "loop") =>
            /\ req[r].sends = BagCardinality(req[r].sent)
            /\ \A i \in 1..Len(req[r].list) :
                 req[r].list[i].email \notin BagToSet(req[r].sent)
            /\ BagToSet(req[r].sent) \cup
                 { req[r].list[i].email : i \in 1..Len(req[r].list) } = req[r].loaded

C28_Sequential ==
    /\ []C28_NoneOutstanding
    /\ [][C28_OneSendPerTurn]_vars

C28_Witness ==
    \E r \in Requests :
        /\ At(r, "publish", "loop")
        /\ req[r].sends = 2
        /\ BagCardinality(req[r].sent) = 2
        /\ Len(req[r].list) = 1
        /\ BagCardinality(outbox) = 2

\* C29: no step removes or rewrites a row. Every Subscriber row is still
\* there after any step, one row per id, with its id, name and email; every
\* token row is still there, and no subscriber ever gets a second token
\* (a resend stores none); a row's status is changed only by the UPDATE of
\* a confirm, to confirmed, and only in the row of the subscriber the given
\* token is bound to; a confirm changes nothing else in the store.
C29_RowsKept ==
    /\ \A s \in subscriptions :
         /\ \E n \in subscriptions' :
              n.id = s.id /\ n.name = s.name /\ n.email = s.email
         /\ Cardinality({ n \in subscriptions' : n.id = s.id }) = 1
    /\ subscription_tokens \subseteq subscription_tokens'
    /\ \A t \in subscription_tokens' \ subscription_tokens :
         /\ TokensOfId(t.subscriber_id) = {}
         /\ RowsOfId(t.subscriber_id) = {}

C29_OnlyConfirmSetsStatus ==
    \A s \in subscriptions \ subscriptions' :
        \E r \in Requests :
            /\ Steps(r, "confirm", "update")
            /\ s.id = req[r].sid
            /\ store_token(s.id, req[r].token) \in subscription_tokens
            /\ [s EXCEPT !.status = Confirmed] \in subscriptions'

C29_ConfirmFrame ==
    \A r \in Requests :
        \/ Steps(r, "confirm", "update")
        \/ req[r].pc = "idle" /\ started' = r
             /\ "confirm" \in {req'[r].kind, response'.kind}
        => /\ UNCHANGED <<subscription_tokens, users, outbox>>
           /\ Cardinality(subscriptions') = Cardinality(subscriptions)
           /\ \A s \in subscriptions :
                s.id # req[r].sid \/ req[r].pc = "idle" => s \in subscriptions'

C29_ResendKeepsToken ==
    \A r \in Requests :
        req[r].kind = "subscribe" /\ req[r].path = "existing" /\ req'[r] # req[r] =>
            UNCHANGED <<subscriptions, subscription_tokens>>

C29_NothingRewritten ==
    [][C29_RowsKept /\ C29_OnlyConfirmSetsStatus /\ C29_ConfirmFrame
         /\ C29_ResendKeepsToken]_vars

C29_Witness ==
    /\ ConfirmReturned /\ response.resp = StatusOk
    /\ response.status_before = Pending
    /\ Cardinality(subscriptions) = 2
    /\ Cardinality(subscription_tokens) = 2
    /\ \E s \in subscriptions : s.id # response.sid /\ s.status = Pending
    /\ \E s \in RowsOfId(response.sid) : s.status = Confirmed

\* C30: a confirm whose token lookup or whose status update failed in the
\* store returns 500, never 200 or 401; the step in which either call
\* failed changes no table and sends nothing, so after a failed lookup
\* every subscriber has the status it had, and after a failed update the
\* subscriber the token is bound to still has the status the update found.
C30_StoreFailed(rec) ==
    rec.kind = "confirm"
    /\ rec.failed \in {"get_subscriber_id_from_token", "confirm_subscriber"}

C30_InternalError ==
    ConfirmReturned /\ C30_StoreFailed(response) =>
        /\ response.resp = StatusInternalServerError
        /\ response.failed = "get_subscriber_id_from_token" =>
             response.db = 1 /\ response.sid = NoId
        /\ response.failed = "confirm_subscriber" =>
             /\ response.db = 2
             /\ response.status_before \in {Pending, Confirmed}
             /\ \A s \in RowsOfId(response.sid) : s.status = response.status_before
             /\ store_token(response.sid, response.token) \in subscription_tokens

C30_FailureChangesNothing ==
    C30_StoreFailed(response') =>
        UNCHANGED <<subscriptions, subscription_tokens, users, outbox>>

C30_ConfirmStoreFailure ==
    /\ []C30_InternalError
    /\ [][C30_FailureChangesNothing]_vars

C30_Witness ==
    /\ ConfirmReturned /\ response.failed = "confirm_subscriber"
    /\ response.resp = StatusInternalServerError
    /\ response.status_before = Pending
    /\ \E s \in RowsOfId(response.sid) : s.status = Pending

\* C31: every publish request that is running eventually returns; while it
\* runs and when it returns, the send_email calls it has made are no more
\* than the confirmed rows it loaded, one attempt at most per row (calls
\* made plus rows still to visit never exceed the rows loaded); a failure
\* is the response of the request in which it happened, which is over by
\* that step; and a newsletter email reaches the gateway only in a step of
\* a request that is inside its loop, never after a request has returned.
C31_Rows(rec) == Cardinality(rec.loaded)

C31_AtMostOneAttemptPerRow ==
    /\ \A r \in Requests :
         req[r].kind = "publish" =>
             /\ req[r].sends + Len(req[r].list) <= C31_Rows(req[r])
             /\ req[r].sends <= BagCardinality(req[r].sent) + 1
    /\ PublishReturned =>
         /\ response.sends <= C31_Rows(response)
         /\ response.sends <= BagCardinality(response.sent) + 1
         /\ response.resp \in {StatusOk, StatusBadRequest, StatusUnauthorized,
                               StatusInternalServerError}
         /\ response.failed # "none" <=> response.resp # StatusOk
         /\ req[response.id] = DoneReq

C31_NoBackgroundWork ==
    /\ \A r \in Requests :
         req[r].kind = "publish" /\ req'[r] # req[r] =>
             LET after == IF req'[r].pc = "done" THEN response' ELSE req'[r]
             IN  /\ after.sends - req[r].sends \in {0, 1}
                 /\ after.sends > req[r].sends /\ Delivered = {} =>
                      /\ req'[r] = DoneReq
                      /\ response'.id = r
                      /\ response'.failed = "send_email"
                      /\ response'.resp = StatusInternalServerError
    /\ Delivered # {} =>
         \E r \in Requests : At(r, "publish", "loop") /\ req'[r] # req[r]
    /\ \A r \in Requests : req[r] = DoneReq => req'[r] = DoneReq

C31_Returns ==
    \A r \in Requests :
        (req[r].kind = "publish") ~> (req[r] = DoneReq)

C31_TerminatesWithoutRetry ==
    /\ []C31_AtMostOneAttemptPerRow
    /\ [][C31_NoBackgroundWork]_vars
    /\ C31_Returns

C31_Witness ==
    /\ PublishReturned /\ response.failed = "send_email"
    /\ C31_Rows(response) = 3
    /\ response.sends = 3
    /\ BagCardinality(response.sent) = 2
    /\ BagCardinality(outbox) = 2

\* C32: a submit whose lookup finds a subscriber goes to the token query
\* with that subscriber's id whatever the subscriber's status, confirmed as
\* well as pending; on that path no step changes a table; and a submit on
\* that path that returns for a confirmed subscriber has returned 200 after
\* one send of an email whose link carries the stored token (unless its
\* token query or its send failed: 500), with the subscriber still confirmed.
C32_LookupIgnoresStatus ==
    \A r \in Requests :
        \A s \in subscriptions :
            /\ req[r].pc = "idle" /\ req'[r].kind = "subscribe"
            /\ req'[r].form.email = s.email
            => /\ req'[r].pc = "get_token"
               /\ req'[r].path = "existing"
               /\ req'[r].sid = s.id

C32_PathWritesNothing ==
    \A r \in Requests :
        /\ req[r].kind = "subscribe" /\ req[r].path = "existing"
        /\ req'[r] # req[r]
        => /\ UNCHANGED <<subscriptions, subscription_tokens, users>>
           /\ req[r].tx = NoTx

C32_ConfirmedResubmit ==
    /\ SubscribeReturned /\ response.path = "existing"
    /\ \E s \in RowsOfId(response.sid) : s.status = Confirmed
    => /\ response.failed \in {"none", "get_subscription_token_from_id",
                               "send_confirmation_email"}
       /\ response.failed = "none" <=> response.resp = StatusOk
       /\ response.db = 2
       /\ \A s \in RowsOfId(response.sid) :
            s.status = Confirmed /\ s.email = response.form.email
       /\ Cardinality(RowsOfEmail(response.form.email)) = 1
       /\ Cardinality(TokensOfId(response.sid)) = 1
       /\ response.resp = StatusOk =>
            /\ response.sends = 1
            /\ store_token(response.sid, response.token) \in subscription_tokens
            /\ \E e \in BagToSet(outbox) :
                 /\ e.to = response.form.email /\ e.subject = "Welcome"
                 /\ LinkToken(e.text_body) = response.token

C32_ConfirmedTakesExistingPath ==
    /\ []C32_ConfirmedResubmit
    /\ [][C32_LookupIgnoresStatus /\ C32_PathWritesNothing]_vars

C32_Witness ==
    /\ SubscribeReturned /\ response.path = "existing"
    /\ response.form = FormJon
    /\ response.resp = StatusOk
    /\ \E s \in RowsOfId(response.sid) : s.status = Confirmed
    /\ subscriptions = { [insert_subscriber(Uuid_new_v4(1), FormJon) EXCEPT
                            !.status = Confirmed] }
    /\ BagCardinality(outbox) = 2

\* C33: a publish request queries the confirmed subscribers once, and what
\* it holds from then on is that answer: the answer is the set of
\* subscribers confirmed at the step of the query, it never changes while
\* the request runs, every newsletter email a step of the request hands to
\* the gateway goes to an address of that answer, and the request's
\* recipients and remaining list stay inside it. A subscriber confirmed or
\* created after the query is not in the answer and gets no email from the
\* request.
C33_After(r) == IF req'[r].pc = "done" THEN response' ELSE req'[r]

C33_OneLoad ==
    \A r \in Requests :
        /\ Steps(r, "publish", "load") /\ req'[r].pc = "loop" =>
             /\ req'[r].loaded = EmailsWithStatus(Confirmed)
             /\ { req'[r].list[i].email : i \in 1..Len(req'[r].list) } = req'[r].loaded
             /\ req'[r].db = req[r].db + 1
        /\ Steps(r, "publish", "loop") =>
             /\ C33_After(r).loaded = req[r].loaded
             /\ C33_After(r).db = req[r].db
             /\ C33_After(r).pc \in {"loop", "done"}
             /\ \A e \in Delivered :
                  \E to \in req[r].loaded : e = NewsletterTo(to)
             /\ \A to \in EmailsWithStatus(Confirmed) \ req[r].loaded :
                  CopiesIn(NewsletterTo(to), outbox') = CopiesIn(NewsletterTo(to), outbox)

C33_RecipientsInSnapshot ==
    /\ \A r \in Requests :
         req[r].kind = "publish" =>
             /\ BagToSet(req[r].sent) \subseteq req[r].loaded
             /\ \A i \in 1..Len(req[r].list) : req[r].list[i].email \in req[r].loaded
    /\ PublishReturned =>
         /\ BagToSet(response.sent) \subseteq response.loaded
         /\ response.sends <= Cardinality(response.loaded)

C33_Snapshot ==
    /\ []C33_RecipientsInSnapshot
    /\ [][C33_OneLoad]_vars

C33_Witness ==
    /\ PublishReturned /\ response.resp = StatusOk
    /\ response.loaded = {EmailSam, EmailLee}
    /\ BagToSet(response.sent) = {EmailSam, EmailLee}
    /\ EmailKim \in EmailsWithStatus(Confirmed)
    /\ CopiesIn(NewsletterTo(EmailKim), outbox) = 0

\* C34: no step of a publish request, from its arrival to its response and
\* whatever the response (200, 400, 401 with the challenge, 500 after a
\* failed query or a failed send), changes a Subscriber row, a token row or
\* a row of users; and the rows of users are at all times the ones that
\* were provisioned.
C34_PublishStep(r) ==
    \/ req[r].kind = "publish" /\ req'[r] # req[r]
    \/ /\ req[r].pc = "idle" /\ started' = r
       /\ "publish" \in {req'[r].kind, response'.kind}

C34_StoreUntouched ==
    \A r \in Requests :
        C34_PublishStep(r) =>
            /\ subscriptions' = subscriptions
            /\ subscription_tokens' = subscription_tokens
            /\ users' = users

C34_CredentialsKept ==
    /\ users = ProvisionedUsers
    /\ PublishReturned =>
         response.resp \in {StatusOk, StatusBadRequest, StatusUnauthorized,
                            StatusInternalServerError}

C34_ReadOnly ==
    /\ []C34_CredentialsKept
    /\ [][C34_StoreUntouched]_vars

C34_Witness ==
    /\ PublishReturned /\ response.failed = "send_email"
    /\ response.resp = StatusInternalServerError
    /\ BagCardinality(response.sent) = 1
    /\ subscriptions = { SeedRow(1, EmailSam, Confirmed), SeedRow(2, EmailKim, Pending),
                         SeedRow(3, EmailLee, Confirmed) }
    /\ subscription_tokens = SeedTokens(subscriptions)
    /\ users = ProvisionedUsers

====
